---- MODULE Spec2Model ----
(***************************************************************************)
(* Model of dot.py, the incremental graph renderer: it walks ./raw, and    *)
(* for every file whose extension is .dot it renders ./static/img/<rel>.png*)
(* with the external `dot` program unless that output is newer than the    *)
(* source.                                                                 *)
(*                                                                         *)
(* A path is a sequence of one-character strings, so that os.path.join,    *)
(* os.path.splitext and os.path.relpath are computed character by          *)
(* character as the library computes them.                                 *)
(*                                                                         *)
(* Environment assumptions: the `dot` executable is resolvable, so that    *)
(* subprocess.run returns (with whatever exit status) instead of raising;  *)
(* the directory structure under ./raw does not change while a run is in   *)
(* progress, except that a source file may vanish after the walker has     *)
(* listed it.                                                              *)
(***************************************************************************)
EXTENDS Integers, Sequences, FiniteSets, TLC

\* Largest value of the clock and of a modification time.
MaxTime == 2

\* What is recorded for a file that does not exist, whose os.path.getmtime
\* raises OSError.
None == -1
Times == 0..MaxTime

----------------------------------------------------------------------------
(* Strings *)

Sep == "/"
Dot == "."
CurDir == <<".">>
ParDir == <<".", ".">>
Empty == <<>>

\* rfind: the largest index of character c in p, 0 when there is none.
RFind(p, c) ==
    LET hits == {i \in 1..Len(p) : p[i] = c}
    IN IF hits = {} THEN 0 ELSE CHOOSE i \in hits : \A j \in hits : j <= i

\* posixpath.join(a, b)
Join(a, b) ==
    IF b # Empty /\ b[1] = Sep THEN b
    ELSE IF a = Empty \/ a[Len(a)] = Sep THEN a \o b
    ELSE a \o <<Sep>> \o b

\* genericpath._splitext with sep '/', extsep '.': <<root, ext>>.  The split is
\* at the last dot after the last separator, unless the file name has only
\* dots in front of it.
SplitExt(p) ==
    LET sepIndex == RFind(p, Sep)
        dotIndex == RFind(p, Dot)
    IN IF dotIndex > sepIndex
          /\ \E i \in (sepIndex + 1)..(dotIndex - 1) : p[i] # Dot
       THEN <<SubSeq(p, 1, dotIndex - 1), SubSeq(p, dotIndex, Len(p))>>
       ELSE <<p, Empty>>

\* str.split('/'): the components of p between separators, empty ones kept.
RECURSIVE Split(_)
Split(p) ==
    LET seps == {i \in 1..Len(p) : p[i] = Sep}
    IN IF seps = {} THEN <<p>>
       ELSE LET i == CHOOSE k \in seps : \A j \in seps : k <= j
            IN <<SubSeq(p, 1, i - 1)>> \o Split(SubSeq(p, i + 1, Len(p)))

\* The loop of posixpath.normpath over the components of an absolute path.
RECURSIVE NormComps(_, _)
NormComps(comps, acc) ==
    IF comps = <<>> THEN acc
    ELSE LET c == Head(comps)
         IN IF c = Empty \/ c = CurDir THEN NormComps(Tail(comps), acc)
            ELSE IF c # ParDir \/ (acc # <<>> /\ acc[Len(acc)] = ParDir)
                 THEN NormComps(Tail(comps), Append(acc, c))
            ELSE IF acc # <<>>
                 THEN NormComps(Tail(comps), SubSeq(acc, 1, Len(acc) - 1))
            ELSE NormComps(Tail(comps), acc)

\* The working directory the script is started in.
Cwd == <<"/", "w">>

\* The non-empty components of posixpath.abspath(p).
AbsComps(p) == NormComps(Split(Join(Cwd, p)), <<>>)

\* Length of the common prefix of two component lists.
RECURSIVE CommonLen(_, _)
CommonLen(xs, ys) ==
    IF xs = <<>> \/ ys = <<>> \/ Head(xs) # Head(ys) THEN 0
    ELSE 1 + CommonLen(Tail(xs), Tail(ys))

\* posixpath.join(*comps)
RECURSIVE JoinAll(_)
JoinAll(comps) ==
    IF Len(comps) = 1 THEN comps[1]
    ELSE Join(JoinAll(SubSeq(comps, 1, Len(comps) - 1)), comps[Len(comps)])

\* posixpath.relpath(path, start)
RelPath(path, start) ==
    LET startList == AbsComps(start)
        pathList == AbsComps(path)
        i == CommonLen(startList, pathList)
        relList == [k \in 1..(Len(startList) - i) |-> ParDir]
                   \o SubSeq(pathList, i + 1, Len(pathList))
    IN IF relList = <<>> THEN CurDir ELSE JoinAll(relList)

----------------------------------------------------------------------------
(* The source tree and the two file systems *)

DotExt == <<".", "d", "o", "t">>
PngExt == <<".", "p", "n", "g">>

\* rawdir = os.path.join('.', 'raw')
rawdir == Join(CurDir, <<"r", "a", "w">>)

SubName == <<"s">>

\* The directories os.walk(rawdir) can yield: the top, and join(top, name) for
\* its one sub-directory.
Dirs == {rawdir, Join(rawdir, SubName)}

\* The names of the sub-directories of directory d.
SubDirNames(d) == IF d = rawdir THEN {SubName} ELSE {}

\* The names of the files directory d may hold.  ./raw holds a source, a file
\* of another type and a hidden file named ".dot"; ./raw/s holds a source with
\* the same name as the one in ./raw.
FileNames(d) ==
    IF d = rawdir
    THEN {<<"a">> \o DotExt, <<"a", ".", "t", "x", "t">>, DotExt}
    ELSE {<<"a">> \o DotExt}

AllFiles == UNION {{Join(d, n) : n \in FileNames(d)} : d \in Dirs}

IsSource_AnyExt(infile) == SplitExt(infile)[2] # Empty

\* ext == '.dot'
IsSource(infile) == SplitExt(infile)[2] = DotExt

Sources == {f \in AllFiles : IsSource(f)}

\* outfile of process_file(rawdir, base, file)
OutFile_Flat(rd, base) ==
    LET name == SubSeq(base, RFind(base, Sep) + 1, Len(base))
    IN Join(Join(Join(CurDir, <<"s", "t", "a", "t", "i", "c">>), <<"i", "m", "g">>),
            name \o PngExt)

OutFile(rd, base) ==
    LET rel == RelPath(base, rd)
    IN Join(Join(Join(CurDir, <<"s", "t", "a", "t", "i", "c">>), <<"i", "m", "g">>),
            rel \o PngExt)

\* The outfile process_file computes for each source: base is the root of
\* os.path.splitext(infile).
outfiles == [f \in Sources |-> OutFile(rawdir, SplitExt(f)[1])]

OutPaths == {outfiles[f] : f \in Sources}

\* The staleness check of process_file on the two modification times, None
\* when os.path.getmtime raises OSError.  The output is read first; either
\* OSError is swallowed and falls through to the render.
Decide_GE(outM, srcM) ==
    IF outM = None \/ srcM = None THEN "build"
    ELSE IF outM >= srcM THEN "skip" ELSE "build"

Decide_Always(outM, srcM) == "build"

Decide_ErrReturns(outM, srcM) ==
    IF outM = None THEN "skip"
    ELSE IF srcM = None THEN "build"
    ELSE IF outM > srcM THEN "skip" ELSE "build"

Decide_SrcErrSkips(outM, srcM) ==
    IF outM = None THEN "build"
    ELSE IF srcM = None THEN "skip"
    ELSE IF outM > srcM THEN "skip" ELSE "build"

Decide(outM, srcM) ==
    IF outM = None THEN "build"
    ELSE IF srcM = None THEN "build"
    ELSE IF outM > srcM THEN "skip" ELSE "build"

\* What print('dot:', file, '->', outfile) writes, without the newline.
Line(file, outfile) ==
    <<"d", "o", "t", ":", " ">> \o file \o <<" ", "-", ">", " ">> \o outfile

\* Standard output after the renderer of (file, outfile) has returned; ok
\* tells whether it succeeded.  The exit status is not looked at.
Printed_OnSuccess(out, file, outfile, ok) ==
    IF ok THEN Append(out, Line(file, outfile)) ELSE out

Printed(out, file, outfile, ok) == Append(out, Line(file, outfile))

\* Where the script is after subprocess.run has started the renderer:
\* subprocess.run waits for the child, so the walk does not go on.
PcAfterSpawn_NoWait == "walk"

PcAfterSpawn == "render"

\* The orders in which a set of names can be listed.
Orders(S) ==
    {sq \in [1..Cardinality(S) -> S] : \A i, j \in 1..Cardinality(S) : sq[i] = sq[j] => i = j}

----------------------------------------------------------------------------
VARIABLES
    pc,         \* "idle": not running; "walk": in the os.walk loops;
                \* "render": inside subprocess.run; "done": the loops have ended
    now,        \* the clock
    srcFS,      \* modification time of every file under ./raw, None if absent
    outFS,      \* modification time of every output path, None if absent
    root,       \* the directory os.walk has yielded last
    files,      \* the names of its listing not yet iterated over
    stack,      \* the directories os.walk still has to descend into
    running,    \* the renderer subprocesses in progress
    calls,      \* the renderer invocations of this run, in order
    log,        \* the lines written to standard output in this run
    decisions,  \* the staleness checks of this run, with what they read
    startFS,    \* the two file systems as they were when this run started
    quiet       \* nothing has changed the files since the previous run ended

vars == <<pc, now, srcFS, outFS, root, files, stack, running, calls, log,
          decisions, startFS, quiet>>

NoFS == [src |-> [f \in AllFiles |-> None], out |-> [o \in OutPaths |-> None]]

Init ==
    /\ pc = "idle"
    /\ now = 0
    /\ srcFS \in [AllFiles -> Times \cup {None}]
    /\ \A f \in AllFiles \ Sources : srcFS[f] = 0
    /\ outFS \in [OutPaths -> Times \cup {None}]
    /\ root = Empty
    /\ files = {}
    /\ stack = <<>>
    /\ running = {}
    /\ calls = <<>>
    /\ log = <<>>
    /\ decisions = <<>>
    /\ startFS = NoFS
    /\ quiet = FALSE

\* The script is started: rawdir is computed and os.walk(rawdir) is created.
StartRun ==
    /\ pc = "idle"
    /\ pc' = "walk"
    /\ stack' = <<rawdir>>
    /\ startFS' = [src |-> srcFS, out |-> outFS]
    /\ UNCHANGED <<now, srcFS, outFS, root, files, running, calls, log, decisions, quiet>>

\* os.walk yields the next directory: it is listed as it is now, and its
\* sub-directories are queued in front of the directories still to visit.
ListDir ==
    /\ pc = "walk"
    /\ files = {}
    /\ stack # <<>>
    /\ root' = Head(stack)
    /\ files' = {n \in FileNames(root') : srcFS[Join(root', n)] # None}
    /\ \E order \in Orders(SubDirNames(root')) :
           stack' = [i \in 1..Len(order) |-> Join(root', order[i])] \o Tail(stack)
    /\ UNCHANGED <<pc, now, srcFS, outFS, running, calls, log, decisions, startFS, quiet>>

\* A listed file whose extension is not .dot: process_file is not called.
VisitOther(n) ==
    /\ pc = "walk"
    /\ n \in files
    /\ ~IsSource(Join(root, n))
    /\ files' = files \ {n}
    /\ UNCHANGED <<pc, now, srcFS, outFS, root, stack, running, calls, log, decisions, startFS, quiet>>

\* process_file on a source whose output is newer: it returns at once.
Skip(n) ==
    LET infile == Join(root, n)
        outfile == outfiles[infile]
    IN /\ pc = "walk"
       /\ n \in files
       /\ IsSource(infile)
       /\ Decide(outFS[outfile], srcFS[infile]) = "skip"
       /\ files' = files \ {n}
       /\ decisions' = Append(decisions, [file |-> infile, out |-> outfile,
                                          outM |-> outFS[outfile], srcM |-> srcFS[infile],
                                          verdict |-> "skip"])
       /\ UNCHANGED <<pc, now, srcFS, outFS, root, stack, running, calls, log, startFS, quiet>>

\* process_file on a source that is to be built, up to the start of the
\* renderer in subprocess.run(['dot', '-Tpng', file, '-o', outfile]).
RenderStart(n) ==
    LET infile == Join(root, n)
        outfile == outfiles[infile]
    IN /\ pc = "walk"
       /\ n \in files
       /\ IsSource(infile)
       /\ Decide(outFS[outfile], srcFS[infile]) = "build"
       /\ files' = files \ {n}
       /\ decisions' = Append(decisions, [file |-> infile, out |-> outfile,
                                          outM |-> outFS[outfile], srcM |-> srcFS[infile],
                                          verdict |-> "build"])
       /\ calls' = Append(calls, [file |-> infile, out |-> outfile])
       /\ running' = running \cup {[file |-> infile, out |-> outfile]}
       /\ pc' = PcAfterSpawn
       /\ UNCHANGED <<now, srcFS, outFS, root, stack, log, startFS, quiet>>

\* The renderer returns, having written the output (ok) or not; process_file
\* prints its line and returns to the loop.
RenderReturn(ok) ==
    /\ \E r \in running :
          /\ running' = running \ {r}
          /\ outFS' = IF ok THEN [outFS EXCEPT ![r.out] = now] ELSE outFS
          /\ log' = Printed(log, r.file, r.out, ok)
    /\ pc' = "walk"
    /\ UNCHANGED <<now, srcFS, root, files, stack, calls, decisions, startFS, quiet>>

\* os.walk is exhausted: the for loop, and with it the module, ends.
EndRun ==
    /\ pc = "walk"
    /\ files = {}
    /\ stack = <<>>
    /\ pc' = "done"
    /\ UNCHANGED <<now, srcFS, outFS, root, files, stack, running, calls, log, decisions, startFS, quiet>>

\* The interpreter exits; what the run printed and did is no longer looked at.
Exit ==
    /\ pc = "done"
    /\ running = {}
    /\ pc' = "idle"
    /\ root' = Empty
    /\ calls' = <<>>
    /\ log' = <<>>
    /\ decisions' = <<>>
    /\ startFS' = NoFS
    /\ quiet' = TRUE
    /\ UNCHANGED <<now, srcFS, outFS, files, stack, running>>

(* The environment *)

\* Time passes.  The clock is read only when a renderer writes its output, so
\* it is enough to let it advance between runs and while a renderer runs.
Tick ==
    /\ pc \in {"idle", "render"}
    /\ now < MaxTime
    /\ now' = now + 1
    /\ UNCHANGED <<pc, srcFS, outFS, root, files, stack, running, calls, log, decisions, startFS, quiet>>

\* Between runs a source is created or modified, with any modification time.
Touch(f, t) ==
    /\ pc = "idle"
    /\ srcFS[f] # t
    /\ srcFS' = [srcFS EXCEPT ![f] = t]
    /\ quiet' = FALSE
    /\ UNCHANGED <<pc, now, outFS, root, files, stack, running, calls, log, decisions, startFS>>

\* Between runs an output is deleted.
DeleteOutput(o) ==
    /\ pc = "idle"
    /\ outFS[o] # None
    /\ outFS' = [outFS EXCEPT ![o] = None]
    /\ quiet' = FALSE
    /\ UNCHANGED <<pc, now, srcFS, root, files, stack, running, calls, log, decisions, startFS>>

\* A source is deleted: between runs, or during a run after os.walk has
\* listed it and before the loop has come to it.
Vanish(f) ==
    /\ srcFS[f] # None
    /\ \/ pc = "idle"
       \/ pc = "walk" /\ \E n \in files : f = Join(root, n)
    /\ srcFS' = [srcFS EXCEPT ![f] = None]
    /\ quiet' = FALSE
    /\ UNCHANGED <<pc, now, outFS, root, files, stack, running, calls, log, decisions, startFS>>

Step ==
    \/ ListDir
    \/ \E n \in files : VisitOther(n)
    \/ \E n \in files : Skip(n)
    \/ \E n \in files : RenderStart(n)
    \/ \E ok \in BOOLEAN : RenderReturn(ok)
    \/ EndRun

Next ==
    \/ StartRun
    \/ ListDir
    \/ \E n \in files : VisitOther(n)
    \/ \E n \in files : Skip(n)
    \/ \E n \in files : RenderStart(n)
    \/ \E ok \in BOOLEAN : RenderReturn(ok)
    \/ EndRun
    \/ Exit
    \/ Tick
    \/ \E f \in Sources, t \in Times : Touch(f, t)
    \/ \E o \in OutPaths : DeleteOutput(o)
    \/ \E f \in Sources : Vanish(f)

Spec == Init /\ [][Next]_vars

\* The interpreter keeps executing a started script, and a started renderer
\* returns.
FairSpec == Spec /\ WF_vars(Step)

----------------------------------------------------------------------------
(* Vocabulary of the properties *)

\* How many renderer invocations of this run were given source f.
Renders(f) == Cardinality({i \in DOMAIN calls : calls[i].file = f})

\* How many staleness checks of this run were made for file f.
Checks(f) == Cardinality({i \in DOMAIN decisions : decisions[i].file = f})

\* The sources that existed when this run started.
Started == {f \in Sources : startFS.src[f] # None}

\* This run directly follows a completed run, and nothing has created,
\* modified or deleted a source or an output since that run ended.
SecondRun == quiet /\ pc # "idle"

\* When this run started every source had an output strictly newer than it.
AllNewer ==
    \A f \in Started :
        startFS.out[outfiles[f]] # None /\ startFS.out[outfiles[f]] > startFS.src[f]

C4_MissingOutputRenderedOnce ==
    pc = "done" =>
        /\ \A f \in Started : startFS.out[outfiles[f]] = None => Renders(f) = 1
        /\ (\E f \in Started : startFS.out[outfiles[f]] = None) =>
              /\ \A g \in Started : Checks(g) = 1
              /\ log = [i \in DOMAIN calls |-> Line(calls[i].file, calls[i].out)]

\* A completed run whose first check found no output, rendered the source
\* once, and then checked the other source.
C4_Witness ==
    /\ pc = "done"
    /\ Len(decisions) = 2
    /\ decisions[1].outM = None
    /\ startFS.out[decisions[1].out] = None
    /\ Renders(decisions[1].file) = 1

ImgRoot == <<".", "/", "s", "t", "a", "t", "i", "c", "/", "i", "m", "g">>

\* The output root, a separator, and the path of f below ./raw/ with its last
\* four characters (.dot) replaced by .png.
MirrorOf(f) ==
    LET rel == SubSeq(f, Len(rawdir) + 2, Len(f))
    IN ImgRoot \o <<Sep>> \o SubSeq(rel, 1, Len(rel) - Len(DotExt)) \o PngExt

\* C5: the output path of every staleness check and of every renderer
\* invocation is the output root joined with the source's path relative to
\* ./raw, .dot replaced by .png.
C5_OutputMirrorsSource ==
    /\ \A i \in DOMAIN decisions : decisions[i].out = MirrorOf(decisions[i].file)
    /\ \A i \in DOMAIN calls : calls[i].out = MirrorOf(calls[i].file)

\* The source of the sub-directory has been rendered to ./static/img/s/a.png.
C5_Witness ==
    \E i \in DOMAIN calls :
        /\ calls[i].file = <<".", "/", "r", "a", "w", "/", "s", "/", "a", ".", "d", "o", "t">>
        /\ calls[i].out = ImgRoot \o <<"/", "s", "/", "a", ".", "p", "n", "g">>

\* C6: within a run two different sources never have the same output path,
\* neither in the staleness checks nor as render destinations.
C6_DistinctOutputs ==
    /\ \A i, j \in DOMAIN decisions :
          decisions[i].file # decisions[j].file => decisions[i].out # decisions[j].out
    /\ \A i, j \in DOMAIN calls :
          calls[i].file # calls[j].file => calls[i].out # calls[j].out

\* Two different sources have been rendered in one run.
C6_Witness ==
    /\ Len(calls) = 2
    /\ calls[1].file # calls[2].file

\* The build decisions of this run, as renderer arguments.
RECURSIVE Builds(_)
Builds(ds) ==
    IF ds = <<>> THEN <<>>
    ELSE IF Head(ds).verdict = "build"
         THEN <<[file |-> Head(ds).file, out |-> Head(ds).out]>> \o Builds(Tail(ds))
         ELSE Builds(Tail(ds))

\* C7: the lines printed so far are exactly the lines `dot: <source> ->
\* <output>` of the renderer invocations that have returned, in order; an
\* invocation in progress has no line yet, a skipped file never has one, and
\* when the run has ended there are as many lines as invocations.
C7_OneLinePerRender ==
    /\ Len(log) = Len(calls) - Cardinality(running)
    /\ \A i \in DOMAIN log : log[i] = Line(calls[i].file, calls[i].out)
    /\ calls = Builds(decisions)
    /\ pc = "done" => Len(log) = Len(calls)

\* A completed run in which one source was skipped and the renderer of the
\* other failed, leaving no output: the log is the one line of that render.
C7_Witness ==
    /\ pc = "done"
    /\ Len(decisions) = 2
    /\ \E i \in DOMAIN decisions : decisions[i].verdict = "skip"
    /\ Len(calls) = 1
    /\ outFS[calls[1].out] = None
    /\ log = <<Line(calls[1].file, calls[1].out)>>

\* The file name of f ends in .dot and has a character other than a dot in
\* front of that (a hidden file named ".dot" has no extension).
HasDotExtension(f) ==
    LET name == SubSeq(f, RFind(f, Sep) + 1, Len(f))
        stem == SubSeq(name, 1, Len(name) - Len(DotExt))
    IN /\ Len(name) > Len(DotExt)
       /\ SubSeq(name, Len(name) - Len(DotExt) + 1, Len(name)) = DotExt
       /\ \E i \in DOMAIN stem : stem[i] # Dot

\* No file is checked twice and no file without the .dot extension is checked
\* or rendered; when the run has ended every file with the .dot extension
\* that was under ./raw has been checked exactly once.
C8_Decisions ==
    /\ \A f \in AllFiles : Checks(f) <= 1
    /\ \A f \in AllFiles : ~HasDotExtension(f) => (Checks(f) = 0 /\ Renders(f) = 0)
    /\ pc = "done" =>
          \A f \in AllFiles :
              (HasDotExtension(f) /\ startFS.src[f] # None) => Checks(f) = 1

\* C8: in every run each .dot file gets exactly one decision and no other
\* file gets one, in whatever order the files are listed, and a started run
\* whose renderer invocations return comes to its end.
C8_CompleteAndTerminates ==
    /\ []C8_Decisions
    /\ (pc \in {"walk", "render"}) ~> (pc = "done")

\* A run over all four files has ended after two checks and a render.
C8_Witness ==
    /\ pc = "done"
    /\ \A f \in AllFiles : startFS.src[f] # None
    /\ Len(decisions) = 2
    /\ Len(calls) >= 1

\* C9: at most one renderer is in progress; while one is, the script is
\* inside subprocess.run for the file it checked last, with the verdict
\* build, so that no other file is checked before the renderer returns; and
\* the renders are the build decisions, in their order.
C9_OneAtATime ==
    /\ Cardinality(running) <= 1
    /\ \A r \in running :
          /\ pc = "render"
          /\ decisions # <<>>
          /\ decisions[Len(decisions)].verdict = "build"
          /\ decisions[Len(decisions)].file = r.file
          /\ calls[Len(calls)] = r
    /\ calls = Builds(decisions)

\* The renderer of the second source is in progress, the first one's having
\* returned.
C9_Witness ==
    /\ running # {}
    /\ Len(calls) = 2
    /\ Len(log) = 1

\* C10: a staleness check that read the output's modification time and
\* failed to read the source's decides build; when the run has ended that
\* source has been rendered exactly once, its line has been printed, and
\* every source that was there at the start has been checked.
C10_VanishedSourceIsBuilt ==
    \A i \in DOMAIN decisions :
        LET d == decisions[i]
        IN (d.outM # None /\ d.srcM = None) =>
              /\ d.verdict = "build"
              /\ pc = "done" =>
                    /\ Renders(d.file) = 1
                    /\ \E k \in DOMAIN log : log[k] = Line(d.file, d.out)
                    /\ \A g \in Started : Checks(g) = 1

\* A completed run whose first check failed to read the source's
\* modification time, rendered it, and then checked the other source.
C10_Witness ==
    /\ pc = "done"
    /\ Len(decisions) = 2
    /\ decisions[1].outM # None
    /\ decisions[1].srcM = None
    /\ Renders(decisions[1].file) = 1

====
